---- MODULE Spec2Model ----
(***************************************************************************)
(* SFLConversionBot: the TTL cache decorator (decorators.py), the price /  *)
(* exchange-rate store with its retrying fetcher (services.py) and the     *)
(* conversion handlers built on them (handlers.py).                        *)
(*                                                                         *)
(* The program runs on one asyncio event loop.  A coroutine is suspended   *)
(* only at an await that really waits: the HTTP request of fetch_data and  *)
(* the sleep tenacity makes between two attempts.  Every action below is   *)
(* the code that runs between two such suspension points.                  *)
(***************************************************************************)
EXTENDS Integers, Sequences, FiniteSets, TLC

(* ---- bounds of the model ---- *)
MaxCalls == 3
MaxTime == 5
MaxCommands == 2
MaxDays == 1
NumUsers == 1
NumChats == 1
MaxAds == 11

(* ---- configuration (config.py): CACHE_TTL is read from the environment, *)
(* the model runs the configuration CACHE_TTL=2 (seconds)              ---- *)
CACHE_TTL == 2

(* wait_exponential(multiplier=1) of the @retry decorator of fetch_data *)
multiplier == 1

(* two coroutines on the event loop: every race below is between two callers *)
Procs == {1, 2}

(* Decimal values: coefficient c and exponent e, the value c * 10^e *)
Dec(c, e) == [c |-> c, e |-> e]
Funcs == {"get_prices", "get_exchange_rates"}

(* What one HTTP attempt can come back with:                               *)
(*   ok          2xx, body decodes, JSON has the shape the caller parses   *)
(*   bad_shape   2xx, body decodes, but the caller's parsing raises        *)
(*   bad_status  raise_for_status raises HTTPStatusError                   *)
(*   conn_error  the request raises RequestError (connection, timeout)     *)
(*   bad_json    response.json() raises ValueError                         *)
Outcomes == {"ok", "bad_shape", "bad_status", "conn_error", "bad_json"}
FailedAttempt == {"bad_status", "conn_error", "bad_json"}

VARIABLES
    now,          \* datetime.now(), in seconds
    attrs,        \* the instance attributes the decorator sets with setattr
    pc,           \* per coroutine: "idle", "http" (awaiting the GET), "backoff"
    func,         \* per coroutine: the decorated method it is inside ("" when idle)
    attempt,      \* per coroutine: tenacity's attempt_number
    wakeAt,       \* per coroutine: when the backoff sleep is over
    waits,        \* per coroutine: the waits made by the fetch_data call so far
    httpCalls,    \* per coroutine: HTTP requests issued by the current call
    outcomeOf,    \* per coroutine: the failed attempt tenacity is sleeping after
    sawExpired,   \* per coroutine: the call began on an entry whose TTL had elapsed
    ncalls,       \* calls of the decorated methods made so far
    nextId,       \* identity of the next table object a parse builds
    succeeded,    \* per method: some call has fetched and parsed a table
    inflight,     \* the coroutines inside a decorated method, in the order they entered
    overtaken,    \* per coroutine: a call of its method that entered later has
                  \* already stored the table it fetched
    last          \* the call that ended in the latest step, if one did: who, how,
                  \* what it returned or raised

storeVars == <<now, attrs, pc, func, attempt, wakeAt, waits, httpCalls, outcomeOf,
               sawExpired, ncalls, nextId, succeeded, inflight, overtaken, last>>

VARIABLES
    handler,               \* the request of the conversion handler running or just ended
    command_count,         \* Handlers.command_count
    error_stats,           \* Handlers.error_stats
    unique_users,          \* Handlers.unique_users
    daily_users,           \* Handlers.daily_users
    last_reset,            \* Handlers.last_reset
    today,                 \* datetime.now().date(), in days
    advertisement_shown,   \* Handlers.advertisement_shown: chat_id -> count
    reply                  \* what the handler that ended in the latest step sent

handlerVars == <<handler, command_count, error_stats, unique_users, daily_users,
                 last_reset, today, advertisement_shown, reply>>

VARIABLES
    calc,                  \* the call of a Calculations method running or just ended
    returned               \* what the Calculations method that ended in the latest step returned

calcVars == <<calc, returned>>

vars == <<storeVars, handlerVars, calcVars>>

(* ------------------------------------------------------------------ *)
(* decorators.py: cache_ttl                                            *)
(* ------------------------------------------------------------------ *)

(* mutant: the attribute name is hard-coded, not derived from the method *)
cache_attr_Hardcoded(f) == "_get_prices_cache"

cache_attr(f) == "_" \o f \o "_cache"
expiry_attr(f) == "_" \o f \o "_expiry"

hasattr(a, name) == name \in DOMAIN a
getattr(a, name) == a[name].val

(* setattr(self, name, value); "by" records the coroutine that wrote it *)
setattr(a, name, value, by) ==
    [k \in DOMAIN a \cup {name} |->
        IF k = name THEN [val |-> value, by |-> by] ELSE a[k]]

(* mutant: the comparison of line 11 is inverted *)
CacheFresh_Inverted(a, f, t) ==
    hasattr(a, expiry_attr(f)) /\ t > getattr(a, expiry_attr(f))

(* line 11: the entry is served without calling the method *)
CacheFresh(a, f, t) ==
    hasattr(a, expiry_attr(f)) /\ t < getattr(a, expiry_attr(f))

(* mutant: the expiry is stored as now, without the TTL *)
WrapperStore_NoTTL(a, f, result, t, by) ==
    setattr(setattr(a, cache_attr(f), result, by), expiry_attr(f), t, by)

(* mutant: only the expiry is written *)
WrapperStore_ExpiryOnly(a, f, result, t, by) ==
    setattr(a, expiry_attr(f), t + CACHE_TTL, by)

(* mutant: an entry that is still fresh is not overwritten *)
WrapperStore_UnlessFresh(a, f, result, t, by) ==
    IF CacheFresh(a, f, t) THEN a
    ELSE setattr(setattr(a, cache_attr(f), result, by), expiry_attr(f), t + CACHE_TTL, by)

(* lines 15-16: no await between the two setattr *)
WrapperStore(a, f, result, t, by) ==
    setattr(setattr(a, cache_attr(f), result, by),
            expiry_attr(f), t + CACHE_TTL, by)

(* ------------------------------------------------------------------ *)
(* services.py: fetch_data under @retry                               *)
(* ------------------------------------------------------------------ *)

stop_after_attempt(attempt_number) == attempt_number >= 3

(* mutant: the exponent is attempt_number, waits of 2 and 4 *)
wait_exponential_FromTwo(attempt_number) == multiplier * 2 ^ attempt_number

(* tenacity: multiplier * exp_base ** (attempt_number - 1), exp_base = 2 *)
wait_exponential(attempt_number) == multiplier * 2 ^ (attempt_number - 1)

NoError == [type |-> "none", msg |-> "", last_attempt |-> ""]

(* the except clauses of fetch_data: every failure becomes a plain Exception *)
AttemptError(outcome) ==
    [type |-> "Exception",
     msg |-> CASE outcome = "bad_status" -> "HTTP error"
               [] outcome = "conn_error" -> "Connection error"
               [] outcome = "bad_json" -> "JSON parsing error",
     last_attempt |-> ""]

(* @retry without reraise=True: when stop says so, tenacity raises         *)
(* RetryError(last_attempt), the attempt's exception only as its cause     *)
RetryExhausted(exc) ==
    [type |-> "RetryError", msg |-> "RetryError", last_attempt |-> exc.msg]

(* ------------------------------------------------------------------ *)
(* services.py: get_prices / get_exchange_rates                        *)
(* ------------------------------------------------------------------ *)

ErrorPrefix(f) ==
    IF f = "get_prices" THEN "Error getting prices" ELSE "Error getting exchange rates"

(* the table a successful parse builds: a new dict object *)
Table(id, f, body) == [type |-> "table", id |-> id, of |-> f, data |-> body, msg |-> ""]

Raised(f) == [type |-> "Exception", id |-> 0, of |-> f, data |-> <<>>, msg |-> ErrorPrefix(f)]

NoResult == [type |-> "none", id |-> 0, of |-> "", data |-> <<>>, msg |-> ""]

(* the attribute each except branch names literally *)
FallbackAttr(f) ==
    IF f = "get_prices" THEN "_get_prices_cache" ELSE "_get_exchange_rates_cache"

(* mutant: the except branch tests an attribute the decorator never sets *)
Fallback_WrongAttr(a, f) ==
    IF hasattr(a, "_cache") THEN getattr(a, "_cache") ELSE Raised(f)

(* mutant: with nothing cached the except branch returns an empty table *)
Fallback_EmptyTable(a, f) ==
    IF hasattr(a, FallbackAttr(f)) THEN getattr(a, FallbackAttr(f)) ELSE Table(0, f, <<>>)

(* the except branch: the stale table if the attribute exists, else raise *)
Fallback(a, f) ==
    IF hasattr(a, FallbackAttr(f)) THEN getattr(a, FallbackAttr(f)) ELSE Raised(f)

(* ------------------------------------------------------------------ *)
(* One call of a decorated method, from the wrapper's first line to   *)
(* its return, cut at the awaits                                      *)
(* ------------------------------------------------------------------ *)

(* the JSON bodies the two endpoints answer with: the p2p prices as a    *)
(* sequence <<wood, iron, leather>>, the sfl->usd rate as <<rate>> or <<>> *)
Bodies(f) ==
    IF f = "get_prices" THEN {<<Dec(2, 0), Dec(5, 0), Dec(1, 0)>>} ELSE {<<Dec(5, -1)>>}

NoCall ==
    [p |-> 0, call |-> 0, f |-> "", how |-> "none", ret |-> NoResult,
     fetchErr |-> NoError, outcome |-> "none", sawExpired |-> FALSE,
     overtaken |-> FALSE, httpCalls |-> 0, fetchCalls |-> 0, waits |-> <<>>]

(* the coroutine is back in its caller: the call's frame is gone *)
Leave(p) ==
    /\ pc' = [pc EXCEPT ![p] = "idle"]
    /\ func' = [func EXCEPT ![p] = ""]
    /\ attempt' = [attempt EXCEPT ![p] = 0]
    /\ httpCalls' = [httpCalls EXCEPT ![p] = 0]
    /\ waits' = [waits EXCEPT ![p] = <<>>]
    /\ outcomeOf' = [outcomeOf EXCEPT ![p] = "none"]
    /\ sawExpired' = [sawExpired EXCEPT ![p] = FALSE]
    /\ inflight' = SelectSeq(inflight, LAMBDA q : q # p)

(* wrapper lines 8-14: the cache test, then the method up to its first await *)
Enter(p, f) ==
    /\ pc[p] = "idle"
    /\ ncalls < MaxCalls
    /\ ncalls' = ncalls + 1
    /\ IF CacheFresh(attrs, f, now)
       THEN /\ last' = [NoCall EXCEPT !.p = p, !.call = ncalls + 1, !.f = f, !.how = "hit",
                                      !.ret = getattr(attrs, cache_attr(f))]
            /\ UNCHANGED <<pc, func, attempt, httpCalls, sawExpired, inflight>>
       ELSE /\ pc' = [pc EXCEPT ![p] = "http"]
            /\ inflight' = Append(inflight, p)
            /\ func' = [func EXCEPT ![p] = f]
            /\ attempt' = [attempt EXCEPT ![p] = 1]
            /\ httpCalls' = [httpCalls EXCEPT ![p] = 1]
            /\ sawExpired' = [sawExpired EXCEPT ![p] = hasattr(attrs, expiry_attr(f))]
            /\ last' = NoCall
    /\ UNCHANGED <<now, attrs, wakeAt, waits, outcomeOf, nextId, succeeded, overtaken>>

(* what the ending call leaves on record *)
Ended(p, h, result, err, outcome) ==
    [p |-> p, call |-> ncalls, f |-> func[p], how |-> h, ret |-> result,
     fetchErr |-> err, outcome |-> outcome, sawExpired |-> sawExpired[p],
     overtaken |-> overtaken[p],
     httpCalls |-> httpCalls[p], fetchCalls |-> 1, waits |-> waits[p]]

(* q entered its method before p did, and both are still inside *)
EnteredBefore(q, p) ==
    \E i, j \in 1..Len(inflight) : i < j /\ inflight[i] = q /\ inflight[j] = p

(* the method returned `result`: wrapper lines 15-17 *)
Return(p, result, h, err, outcome) ==
    /\ attrs' = WrapperStore(attrs, func[p], result, now, p)
    /\ overtaken' = [q \in Procs |->
                        /\ q # p
                        /\ \/ overtaken[q]
                           \/ h = "fresh" /\ func[q] = func[p] /\ EnteredBefore(q, p)]
    /\ last' = Ended(p, h, result, err, outcome)
    /\ Leave(p)

(* the method's except branch ran: the stale table goes through the      *)
(* wrapper like any result, an exception leaves the wrapper at line 14   *)
Except(p, err, outcome) ==
    LET r == Fallback(attrs, func[p]) IN
    IF r.type = "table"
    THEN Return(p, r, "stale", err, outcome)
    ELSE /\ last' = Ended(p, "raised", r, err, outcome)
         /\ Leave(p)
         /\ overtaken' = [overtaken EXCEPT ![p] = FALSE]
         /\ UNCHANGED attrs

(* the awaited GET completes: the rest of fetch_data, tenacity's decision,  *)
(* the method's parsing or except branch and the wrapper's store, up to   *)
(* the next await (the backoff sleep) or the return                      *)
Response(p, outcome, body) ==
    /\ pc[p] = "http"
    /\ CASE outcome = "ok" ->
               /\ Return(p, Table(nextId, func[p], body), "fresh", NoError, outcome)
               /\ nextId' = nextId + 1
               /\ succeeded' = [succeeded EXCEPT ![func[p]] = TRUE]
               /\ UNCHANGED wakeAt
         [] outcome = "bad_shape" ->
               /\ Except(p, NoError, outcome)
               /\ UNCHANGED <<wakeAt, nextId, succeeded>>
         [] outcome \in FailedAttempt /\ stop_after_attempt(attempt[p]) ->
               /\ Except(p, RetryExhausted(AttemptError(outcome)), outcome)
               /\ UNCHANGED <<wakeAt, nextId, succeeded>>
         [] outcome \in FailedAttempt /\ ~stop_after_attempt(attempt[p]) ->
               /\ pc' = [pc EXCEPT ![p] = "backoff"]
               /\ outcomeOf' = [outcomeOf EXCEPT ![p] = outcome]
               /\ wakeAt' = [wakeAt EXCEPT ![p] = now + wait_exponential(attempt[p])]
               /\ waits' = [waits EXCEPT ![p] = Append(@, wait_exponential(attempt[p]))]
               /\ last' = NoCall
               /\ UNCHANGED <<attrs, func, attempt, httpCalls, sawExpired, nextId, succeeded,
                              inflight, overtaken>>
    /\ UNCHANGED <<now, ncalls>>

(* the backoff sleep is over: tenacity forgets the attempt's outcome and  *)
(* calls fetch_data again, which issues the next GET                      *)
WakeUp(p) ==
    /\ pc[p] = "backoff"
    /\ now >= wakeAt[p]
    /\ pc' = [pc EXCEPT ![p] = "http"]
    /\ outcomeOf' = [outcomeOf EXCEPT ![p] = "none"]
    /\ attempt' = [attempt EXCEPT ![p] = @ + 1]
    /\ httpCalls' = [httpCalls EXCEPT ![p] = @ + 1]
    /\ wakeAt' = [wakeAt EXCEPT ![p] = 0]
    /\ last' = NoCall
    /\ UNCHANGED <<now, attrs, func, waits, sawExpired, ncalls, nextId, succeeded,
                   inflight, overtaken>>

(* time passes *)
Tick ==
    /\ now < MaxTime
    /\ now' = now + 1
    /\ last' = NoCall
    /\ UNCHANGED <<attrs, pc, func, attempt, wakeAt, waits, httpCalls, outcomeOf,
                   sawExpired, ncalls, nextId, succeeded, inflight, overtaken>>

(* PriceBot.__init__ sets no cache attribute *)
InitStore ==
    /\ now = 0
    /\ attrs = <<>>
    /\ pc = [p \in Procs |-> "idle"]
    /\ func = [p \in Procs |-> ""]
    /\ attempt = [p \in Procs |-> 0]
    /\ wakeAt = [p \in Procs |-> 0]
    /\ waits = [p \in Procs |-> <<>>]
    /\ httpCalls = [p \in Procs |-> 0]
    /\ outcomeOf = [p \in Procs |-> "none"]
    /\ sawExpired = [p \in Procs |-> FALSE]
    /\ ncalls = 0
    /\ nextId = 1
    /\ succeeded = [f \in Funcs |-> FALSE]
    /\ inflight = <<>>
    /\ overtaken = [p \in Procs |-> FALSE]
    /\ last = NoCall

Next ==
    \/ \E p \in Procs, f \in Funcs : Enter(p, f) /\ UNCHANGED <<handlerVars, calcVars>>
    \/ \E p \in Procs, outcome \in Outcomes :
          \E body \in Bodies(func[p]) :
              Response(p, outcome, body) /\ UNCHANGED <<handlerVars, calcVars>>
    \/ \E p \in Procs : WakeUp(p) /\ UNCHANGED <<handlerVars, calcVars>>
    \/ Tick /\ UNCHANGED <<handlerVars, calcVars>>

(* ------------------------------------------------------------------ *)
(* decimal.Decimal, as far as the handlers use it                     *)
(* ------------------------------------------------------------------ *)

Abs(n) == IF n < 0 THEN -n ELSE n

Sign(n) == IF n < 0 THEN -1 ELSE IF n = 0 THEN 0 ELSE 1

RECURSIVE Digits(_)
Digits(n) == IF n < 10 THEN 1 ELSE 1 + Digits(n \div 10)

(* the exponent of the most significant digit *)
Adjusted(d) == Digits(Abs(d.c)) + d.e - 1

(* Decimal comparison: -1, 0 or 1 *)
DecCmp(a, b) ==
    IF a.c = 0 \/ b.c = 0 \/ Sign(a.c) # Sign(b.c)
    THEN Sign(Sign(a.c) - Sign(b.c))
    ELSE IF Adjusted(a) # Adjusted(b)
         THEN (IF Adjusted(a) > Adjusted(b) THEN Sign(a.c) ELSE -Sign(a.c))
         ELSE LET m == IF a.e < b.e THEN a.e ELSE b.e
              IN  Sign(a.c * 10 ^ (a.e - m) - b.c * 10 ^ (b.e - m))

(* a * b: the exact product (it has fewer than prec = 12 digits here) *)
DecMul(a, b) == Dec(a.c * b.c, a.e + b.e)

(* a / b for b # 0 when the quotient terminates: the exact quotient, its   *)
(* exponent as close to a.e - b.e as the digits allow.  The quotients of   *)
(* the model's inputs all terminate within prec = 12 digits.               *)
DecDiv(a, b) ==
    LET k == CHOOSE k \in 0..12 :
                 /\ (Abs(a.c) * 10 ^ k) % Abs(b.c) = 0
                 /\ \A j \in 0..(k - 1) : (Abs(a.c) * 10 ^ j) % Abs(b.c) # 0
    IN  Dec(Sign(a.c) * Sign(b.c) * ((Abs(a.c) * 10 ^ k) \div Abs(b.c)), a.e - b.e - k)

(* ------------------------------------------------------------------ *)
(* services.py: validate_amount                                       *)
(* ------------------------------------------------------------------ *)

(* the decimals validate_amount is evaluated on, the threshold written in *)
(* more than one way                                                     *)
Decimals == {Dec(0, 0), Dec(5, -9), Dec(9, -9), Dec(1, -8), Dec(10, -9), Dec(11, -9),
             Dec(1, -7), Dec(1, 0), Dec(2, 0)}

(* mutant: > instead of >= *)
validate_amount_Strict(amount) == DecCmp(amount, Dec(1, -8)) > 0

validate_amount(amount) == DecCmp(amount, Dec(1, -8)) >= 0

(* ------------------------------------------------------------------ *)
(* handlers.py: the two conversion handlers                           *)
(* ------------------------------------------------------------------ *)

Users == 1..NumUsers
Chats == 1..NumChats

(* the amounts handle_item passes on: Decimal(amount_str), amount_str made *)
(* of digits and dots, so finite and not negative                          *)
Amounts == {Dec(0, 0), Dec(9, -9), Dec(1, -8), Dec(2, 0)}

(* the exchange endpoint's answer: no sfl/usd rate, or a rate *)
RateBodies == {<<>>, <<Dec(0, 0)>>, <<Dec(-5, -1)>>, <<Dec(5, -1)>>}

NoHandler == [name |-> "none", amount |-> Dec(0, 0), chat |-> 0, running |-> FALSE]

NoReply == [kind |-> "none", value |-> <<>>, ad |-> FALSE]

(* the request a handler is suspended in, if any; a request that has been *)
(* answered leaves nothing behind                                         *)
Pending == IF handler.running THEN handler ELSE NoHandler

(* Handlers.__init__ *)
InitHandlers ==
    /\ handler = NoHandler
    /\ command_count = 0
    /\ error_stats = [api |-> 0, input |-> 0, calculation |-> 0, cache |-> 0, other |-> 0]
    /\ unique_users = {}
    /\ daily_users = {}
    /\ today = 0
    /\ last_reset = 0
    /\ advertisement_shown = <<>>
    /\ reply = NoReply

NoCalc == [name |-> "none", resource_type |-> "", oil_unit_cost |-> Dec(0, 0), running |-> FALSE]

NoCalcResult == [type |-> "none"]

(* Calculations.__init__ *)
InitCalc ==
    /\ calc = NoCalc
    /\ returned = NoCalcResult

Init == InitStore /\ InitHandlers /\ InitCalc

(* mutant: the daily set is never cleared *)
update_user_stats_NoClear(user_id) ==
    /\ last_reset' = today
    /\ daily_users' = daily_users \cup {user_id}
    /\ unique_users' = unique_users \cup {user_id}

update_user_stats(user_id) ==
    /\ last_reset' = today
    /\ daily_users' = (IF today # last_reset THEN {} ELSE daily_users) \cup {user_id}
    /\ unique_users' = unique_users \cup {user_id}

(* advertisement_shown.get(chat_id, 0) *)
ad_count(chat_id) ==
    IF chat_id \in DOMAIN advertisement_shown THEN advertisement_shown[chat_id] ELSE 0

(* send_advertisement(update), not forced: the counter goes up by one, *)
(* the advertisement is sent when the count was a multiple of 10       *)
send_advertisement(chat_id) ==
    advertisement_shown' =
        [c \in DOMAIN advertisement_shown \cup {chat_id} |->
            IF c = chat_id THEN ad_count(chat_id) + 1 ELSE advertisement_shown[c]]

(* rates.get("sfl", {}).get("usd", Decimal('0')) *)
flower_rate_of(rates) == IF rates.data = <<>> THEN Dec(0, 0) ELSE rates.data[1]

(* mutant: < instead of <= *)
invalid_rate_NegativeOnly(flower_rate) == DecCmp(flower_rate, Dec(0, 0)) < 0

(* if flower_rate <= 0 *)
invalid_rate(flower_rate) == DecCmp(flower_rate, Dec(0, 0)) <= 0

(* the handler from the return of get_exchange_rates to its end; a division *)
(* by zero raises decimal.DivisionByZero, caught as DecimalException       *)
ConvFinish(name, amount, chat_id, result) ==
    IF result.type # "table"
    THEN /\ error_stats' = [error_stats EXCEPT !.other = @ + 1]
         /\ reply' = [kind |-> "error_processing", value |-> <<>>, ad |-> FALSE]
         /\ UNCHANGED advertisement_shown
    ELSE IF invalid_rate(flower_rate_of(result))
    THEN /\ error_stats' = [error_stats EXCEPT !.api = @ + 1]
         /\ reply' = [kind |-> "invalid_rate", value |-> <<>>, ad |-> FALSE]
         /\ UNCHANGED advertisement_shown
    ELSE IF name = "flower" /\ flower_rate_of(result).c = 0
    THEN /\ error_stats' = [error_stats EXCEPT !.calculation = @ + 1]
         /\ reply' = [kind |-> "calculation_error", value |-> <<>>, ad |-> FALSE]
         /\ UNCHANGED advertisement_shown
    ELSE /\ reply' = [kind |-> "converted",
                      value |-> <<IF name = "usd"
                                  THEN DecMul(amount, flower_rate_of(result))
                                  ELSE DecDiv(amount, flower_rate_of(result))>>,
                      ad |-> ad_count(chat_id) % 10 = 0]
         /\ send_advertisement(chat_id)
         /\ UNCHANGED error_stats

(* handle_usd_conversion / handle_flower_conversion, from the first line  *)
(* to the await inside get_exchange_rates, or to the end when the amount  *)
(* is refused or the rates come from the cache.  The application handles  *)
(* one update at a time.  `counted` is what the caller has already added  *)
(* to command_count for this update.                                      *)
Conversion(p, name, amount, user_id, chat_id, counted) ==
    /\ ~handler.running
    /\ pc[p] = "idle"
    /\ command_count + counted < MaxCommands
    /\ command_count' = command_count + counted + 1
    /\ update_user_stats(user_id)
    /\ UNCHANGED today
    /\ IF ~validate_amount(amount)
       THEN /\ error_stats' = [error_stats EXCEPT !.input = @ + 1]
            /\ reply' = [kind |-> "amount_too_small", value |-> <<>>, ad |-> FALSE]
            /\ handler' = [name |-> name, amount |-> amount, chat |-> chat_id, running |-> FALSE]
            /\ last' = NoCall
            /\ UNCHANGED <<now, attrs, pc, func, attempt, wakeAt, waits, httpCalls, outcomeOf,
                           sawExpired, ncalls, nextId, succeeded, inflight, overtaken,
                           advertisement_shown>>
       ELSE /\ Enter(p, "get_exchange_rates")
            /\ IF pc'[p] = "idle"
               THEN /\ ConvFinish(name, amount, chat_id, last'.ret)
                    /\ handler' = [name |-> name, amount |-> amount, chat |-> chat_id,
                                   running |-> FALSE]
               ELSE /\ handler' = [name |-> name, amount |-> amount, chat |-> chat_id,
                                   running |-> TRUE]
                    /\ reply' = NoReply
                    /\ UNCHANGED <<error_stats, advertisement_shown>>

(* the conversion handler called on its own *)
HandleConversion(p, name, amount, user_id, chat_id) ==
    Conversion(p, name, amount, user_id, chat_id, 0)

(* the GET of the suspended handler completes; when that ends the call of *)
(* get_exchange_rates, the handler runs on to its end                     *)
ConvResponse(p, outcome, body) ==
    /\ handler.running
    /\ Response(p, outcome, body)
    /\ IF pc'[p] = "idle"
       THEN /\ ConvFinish(handler.name, handler.amount, handler.chat, last'.ret)
            /\ handler' = [handler EXCEPT !.running = FALSE]
       ELSE /\ reply' = NoReply
            /\ UNCHANGED <<handler, error_stats, advertisement_shown>>
    /\ UNCHANGED <<command_count, unique_users, daily_users, last_reset, today>>

ConvWakeUp(p) ==
    /\ WakeUp(p)
    /\ reply' = NoReply
    /\ UNCHANGED <<handler, command_count, error_stats, unique_users, daily_users,
                   last_reset, today, advertisement_shown>>

ConvTick ==
    /\ Tick
    /\ reply' = NoReply
    /\ handler' = Pending
    /\ UNCHANGED <<command_count, error_stats, unique_users, daily_users,
                   last_reset, today, advertisement_shown>>

(* midnight: datetime.now().date() changes *)
NewDay ==
    /\ today < MaxDays
    /\ today' = today + 1
    /\ reply' = NoReply
    /\ last' = NoCall
    /\ UNCHANGED <<now, attrs, pc, func, attempt, wakeAt, waits, httpCalls, outcomeOf,
                   sawExpired, ncalls, nextId, succeeded, inflight, overtaken>>
    /\ handler' = Pending
    /\ UNCHANGED <<command_count, error_stats, unique_users, daily_users,
                   last_reset, advertisement_shown>>

(* the coroutine in which the application runs its handlers *)
HandlerProc == CHOOSE p \in Procs : \A q \in Procs : p <= q

NextConv ==
    \/ \E name \in {"usd", "flower"}, amount \in Amounts, user_id \in Users, chat_id \in Chats :
          HandleConversion(HandlerProc, name, amount, user_id, chat_id) /\ UNCHANGED calcVars
    \/ \E outcome \in Outcomes, body \in RateBodies :
          ConvResponse(HandlerProc, outcome, body) /\ UNCHANGED calcVars
    \/ ConvWakeUp(HandlerProc) /\ UNCHANGED calcVars
    \/ ConvTick /\ UNCHANGED calcVars
    \/ NewDay /\ UNCHANGED calcVars

Spec == Init /\ [][Next]_vars

SpecConv == Init /\ [][NextConv]_vars

(* ================================================================== *)
(* str, dict and Decimal operations the calculations use              *)
(* ================================================================== *)

(* a str is the sequence of its characters *)
ascii_uppercase == <<"A", "B", "C", "D", "E", "F", "G", "H", "I", "J", "K", "L", "M", "N", "O", "P", "Q", "R", "S", "T", "U", "V", "W", "X", "Y", "Z">>
ascii_lowercase == <<"a", "b", "c", "d", "e", "f", "g", "h", "i", "j", "k", "l", "m", "n", "o", "p", "q", "r", "s", "t", "u", "v", "w", "x", "y", "z">>

(* the lower-case letter of each upper-case letter *)
to_lower ==
    [c \in {ascii_uppercase[j] : j \in DOMAIN ascii_uppercase} |->
        ascii_lowercase[CHOOSE j \in DOMAIN ascii_uppercase : ascii_uppercase[j] = c]]

(* str.lower() *)
lower(s) == [i \in 1..Len(s) |-> IF s[i] \in DOMAIN to_lower THEN to_lower[s[i]] ELSE s[i]]

(* str.replace(" ", ""): the space character only *)
replace_spaces(s) == SelectSeq(s, LAMBDA c : c # " ")

(* the string literals of the recipes *)
s_wood == <<"w", "o", "o", "d">>
s_iron == <<"i", "r", "o", "n">>
s_leather == <<"l", "e", "a", "t", "h", "e", "r">>
s_wool == <<"w", "o", "o", "l">>
s_artichoke == <<"a", "r", "t", "i", "c", "h", "o", "k", "e">>
s_broccoli == <<"b", "r", "o", "c", "c", "o", "l", "i">>
s_yam == <<"y", "a", "m">>
s_gold == <<"g", "o", "l", "d">>
s_crimstone == <<"c", "r", "i", "m", "s", "t", "o", "n", "e">>
s_merino_wool == <<"m", "e", "r", "i", "n", "o", " ", "w", "o", "o", "l">>
s_onion == <<"o", "n", "i", "o", "n">>
s_turnip == <<"t", "u", "r", "n", "i", "p">>
s_celestine == <<"c", "e", "l", "e", "s", "t", "i", "n", "e">>
s_lunara == <<"l", "u", "n", "a", "r", "a">>
s_duskberry == <<"d", "u", "s", "k", "b", "e", "r", "r", "y">>
s_rhubarb == <<"r", "h", "u", "b", "a", "r", "b">>
s_kale == <<"k", "a", "l", "e">>
s_oil == <<"o", "i", "l">>
s_pepper == <<"p", "e", "p", "p", "e", "r">>
s_zucchini == <<"z", "u", "c", "c", "h", "i", "n", "i">>

(* a dict is the sequence of its items [k, v] in insertion order, keys unique *)
has_key(d, key) == \E i \in 1..Len(d) : d[i].k = key

(* d[key] *)
getitem(d, key) == d[CHOOSE i \in 1..Len(d) : d[i].k = key].v

(* d.get(key, default) *)
get(d, key, default) == IF has_key(d, key) THEN getitem(d, key) ELSE default

(* a + b, exact *)
DecAdd(a, b) ==
    LET m == IF a.e < b.e THEN a.e ELSE b.e
    IN  Dec(a.c * 10 ^ (a.e - m) + b.c * 10 ^ (b.e - m), m)

(* a == b *)
DecEq(a, b) == DecCmp(a, b) = 0

(* {k.lower(): Decimal(str(v)) for k, v in data["data"]["p2p"].items()}: *)
(* a key that comes again keeps its place and takes the later value     *)
RECURSIVE parse_prices(_)
parse_prices(raw) ==
    IF raw = <<>> THEN <<>>
    ELSE LET d == parse_prices(SubSeq(raw, 1, Len(raw) - 1))
             e == raw[Len(raw)]
             k == lower(e.k)
         IN  IF has_key(d, k)
             THEN [i \in 1..Len(d) |-> IF d[i].k = k THEN [k |-> k, v |-> e.v] ELSE d[i]]
             ELSE Append(d, [k |-> k, v |-> e.v])


(* ================================================================== *)
(* calculations.py: Calculations                                      *)
(* ================================================================== *)

ResourceTypes == {"leather", "wool"}

(* mutant: the wool path takes the leather quantity *)
total_resource_AlwaysLeather(resource_type) == Dec(30, 0)

(* 3 drills * 10 leather, or 3 drills * 20 wool *)
total_resource(resource_type) ==
    IF resource_type = "leather" THEN Dec(30, 0) ELSE Dec(60, 0)

resource_key(resource_type) == IF resource_type = "leather" THEN s_leather ELSE s_wool

resource_name(resource_type) == IF resource_type = "leather" THEN "Leather" ELSE "Wool"

(* mutant: the resource price is not tested *)
any_zero_WoodIronOnly(wood_price, iron_price, resource_price) ==
    DecEq(wood_price, Dec(0, 0)) \/ DecEq(iron_price, Dec(0, 0))

(* any(price == 0 for price in [wood_price, iron_price, resource_price]) *)
any_zero(wood_price, iron_price, resource_price) ==
    \E price \in {wood_price, iron_price, resource_price} : DecEq(price, Dec(0, 0))

(* calculate_oil_cost after `prices = await self.get_prices()` *)
calculate_oil_cost(prices, resource_type) ==
    LET wood_price == get(prices, s_wood, Dec(0, 0))
        iron_price == get(prices, s_iron, Dec(0, 0))
        resource_price == get(prices, resource_key(resource_type), Dec(0, 0))
        total_wood_cost == DecMul(Dec(60, 0), wood_price)
        total_iron_cost == DecMul(Dec(27, 0), iron_price)
        total_resource_cost == DecMul(total_resource(resource_type), resource_price)
        total_cost == DecAdd(DecAdd(total_wood_cost, total_iron_cost), total_resource_cost)
        unit_price == DecDiv(total_cost, Dec(50, 0))
    IN  IF any_zero(wood_price, iron_price, resource_price)
        THEN [type |-> "Exception", msg |-> "Could not fetch all required resource prices"]
        ELSE [type |-> "dict",
              resource_type |-> resource_type,
              resource_name |-> resource_name(resource_type),
              total_resource |-> total_resource(resource_type),
              total_wood_cost |-> total_wood_cost,
              total_iron_cost |-> total_iron_cost,
              total_resource_cost |-> total_resource_cost,
              total_cost |-> total_cost,
              unit_price |-> unit_price,
              price_10 |-> DecMul(unit_price, Dec(10, 0)),
              price_50 |-> DecMul(unit_price, Dec(50, 0))]

(* the Lava Pit requirements, in the order the dict literal gives them *)
seasons ==
    << [season |-> "autumn",
        requirements |-> << [item |-> s_artichoke, quantity |-> 30],
                            [item |-> s_broccoli, quantity |-> 750],
                            [item |-> s_yam, quantity |-> 1000],
                            [item |-> s_gold, quantity |-> 5],
                            [item |-> s_crimstone, quantity |-> 4] >>],
       [season |-> "winter",
        requirements |-> << [item |-> s_merino_wool, quantity |-> 200],
                            [item |-> s_onion, quantity |-> 400],
                            [item |-> s_turnip, quantity |-> 200] >>],
       [season |-> "spring",
        requirements |-> << [item |-> s_celestine, quantity |-> 2],
                            [item |-> s_lunara, quantity |-> 2],
                            [item |-> s_duskberry, quantity |-> 2],
                            [item |-> s_rhubarb, quantity |-> 2000],
                            [item |-> s_kale, quantity |-> 100] >>],
       [season |-> "summer",
        requirements |-> << [item |-> s_oil, quantity |-> 100],
                            [item |-> s_pepper, quantity |-> 750],
                            [item |-> s_zucchini, quantity |-> 1000] >>] >>

(* k.replace(" ", "").lower() *)
normalize(s) == lower(replace_spaces(s))

(* the places of the table keys the generator yields for `item` *)
matching(prices, item) ==
    LET wanted == normalize(item)
    IN  {i \in 1..Len(prices) : normalize(prices[i].k) = wanted}

(* mutant: the last matching key instead of the first *)
item_key_Last(prices, item) ==
    LET found == matching(prices, item)
    IN  IF found = {} THEN <<>>
        ELSE prices[CHOOSE i \in found : \A j \in found : j <= i].k

(* next((k for k in prices.keys() if ...), None); None and "" alike fail  *)
(* `if not item_key`, both are <<>> here                                  *)
item_key(prices, item) ==
    LET found == matching(prices, item)
    IN  IF found = {} THEN <<>>
        ELSE prices[CHOOSE i \in found : \A j \in found : i <= j].k

(* mutant: the market price of oil when the table has one *)
oil_line_Market(prices, quantity, oil_unit_cost) ==
    IF has_key(prices, s_oil)
    THEN [kind |-> "market", name |-> s_oil, quantity |-> quantity,
          cost |-> <<DecMul(Dec(quantity, 0), getitem(prices, s_oil))>>]
    ELSE [kind |-> "production", name |-> s_oil, quantity |-> quantity,
          cost |-> <<DecMul(oil_unit_cost, Dec(quantity, 0))>>]

(* if item == "oil": item_total = oil_unit_cost * quantity *)
oil_line(prices, quantity, oil_unit_cost) ==
    [kind |-> "production", name |-> s_oil, quantity |-> quantity,
     cost |-> <<DecMul(oil_unit_cost, Dec(quantity, 0))>>]

(* mutant: an ingredient that is not found is priced at the first key *)
market_line_Default(prices, item, quantity) ==
    LET key == item_key(prices, item)
    IN  IF key = <<>>
        THEN [kind |-> "market", name |-> item, quantity |-> quantity,
              cost |-> <<IF prices = <<>> THEN Dec(quantity, 0)
                         ELSE DecMul(Dec(quantity, 0), prices[1].v)>>]
        ELSE [kind |-> "market", name |-> key, quantity |-> quantity,
              cost |-> <<DecMul(Dec(quantity, 0), getitem(prices, key))>>]

(* else: the line of an ingredient bought on the market *)
market_line(prices, item, quantity) ==
    LET key == item_key(prices, item)
    IN  IF key = <<>>
        THEN [kind |-> "not_found", name |-> item, quantity |-> quantity, cost |-> <<>>]
        ELSE [kind |-> "market", name |-> key, quantity |-> quantity,
              cost |-> <<DecMul(Dec(quantity, 0), getitem(prices, key))>>]

(* for item, quantity in requirements.items(): ... season_total += item_total; *)
(* `continue` leaves the total as it is                                       *)
RECURSIVE season_loop(_, _, _, _, _)
season_loop(prices, oil_unit_cost, requirements, season_total, breakdown) ==
    IF requirements = <<>>
    THEN [total |-> season_total, breakdown |-> breakdown]
    ELSE LET line == IF requirements[1].item = s_oil
                     THEN oil_line(prices, requirements[1].quantity, oil_unit_cost)
                     ELSE market_line(prices, requirements[1].item, requirements[1].quantity)
         IN  season_loop(prices, oil_unit_cost, Tail(requirements),
                         IF line.kind = "not_found" THEN season_total
                         ELSE DecAdd(season_total, line.cost[1]),
                         Append(breakdown, line))

(* for season, requirements in seasons.items(): season_costs[season] = {...} *)
season_costs(prices, oil_unit_cost) ==
    [s \in 1..Len(seasons) |->
        LET costs == season_loop(prices, oil_unit_cost, seasons[s].requirements,
                                 Dec(0, 0), <<>>)
        IN  [season |-> seasons[s].season,
             total |-> costs.total,
             breakdown |-> costs.breakdown]]

(* calculate_lavapit_costs after `prices = await self.get_prices()` *)
calculate_lavapit_costs(prices, oil_unit_cost, resource_type) ==
    [type |-> "dict", resource_type |-> resource_type,
     season_costs |-> season_costs(prices, oil_unit_cost)]

(* the p2p tables the prices endpoint answers with *)
(* the spec's example: wood 2, iron 5, leather 1, and nothing else *)
PriceBody1 ==
    << [k |-> <<"w", "o", "o", "d">>, v |-> Dec(2, 0)],
       [k |-> <<"i", "r", "o", "n">>, v |-> Dec(5, 0)],
       [k |-> <<"l", "e", "a", "t", "h", "e", "r">>, v |-> Dec(1, 0)] >>

(* capitalised keys, two keys that match 'merino wool', a market price for oil *)
PriceBody2 ==
    << [k |-> <<"W", "o", "o", "d">>, v |-> Dec(2, 0)],
       [k |-> <<"I", "r", "o", "n">>, v |-> Dec(5, 0)],
       [k |-> <<"L", "e", "a", "t", "h", "e", "r">>, v |-> Dec(1, 0)],
       [k |-> <<"W", "o", "o", "l">>, v |-> Dec(3, 0)],
       [k |-> <<"M", "e", "r", "i", "n", "o", " ", "W", "o", "o", "l">>, v |-> Dec(2, 0)],
       [k |-> <<"M", "e", "r", "i", "n", "o", "W", "o", "o", "l">>, v |-> Dec(7, 0)],
       [k |-> <<"O", "n", "i", "o", "n">>, v |-> Dec(5, -1)],
       [k |-> <<"O", "i", "l">>, v |-> Dec(9, 0)],
       [k |-> <<"P", "e", "p", "p", "e", "r">>, v |-> Dec(1, -2)],
       [k |-> <<"Y", "a", "m">>, v |-> Dec(1, 0)] >>

(* the same two keys the other way round, 'Wood' twice, no leather *)
PriceBody3 ==
    << [k |-> <<"W", "o", "o", "d">>, v |-> Dec(2, 0)],
       [k |-> <<"M", "E", "R", "I", "N", "O", "W", "O", "O", "L">>, v |-> Dec(7, 0)],
       [k |-> <<"m", "e", "r", "i", "n", "o", " ", "w", "o", "o", "l">>, v |-> Dec(2, 0)],
       [k |-> <<"i", "r", "o", "n">>, v |-> Dec(5, 0)],
       [k |-> <<"w", "o", "o", "d">>, v |-> Dec(3, 0)],
       [k |-> <<"w", "o", "o", "l">>, v |-> Dec(3, 0)],
       [k |-> <<"t", "u", "r", "n", "i", "p">>, v |-> Dec(4, 0)] >>

(* a zero price, and a key with a tab in it *)
PriceBody4 ==
    << [k |-> <<"w", "o", "o", "d">>, v |-> Dec(0, 0)],
       [k |-> <<"i", "r", "o", "n">>, v |-> Dec(5, 0)],
       [k |-> <<"l", "e", "a", "t", "h", "e", "r">>, v |-> Dec(1, 0)],
       [k |-> <<"w", "o", "o", "l">>, v |-> Dec(1, 0)],
       [k |-> <<"m", "e", "r", "i", "n", "o", "\t", "w", "o", "o", "l">>, v |-> Dec(4, 0)],
       [k |-> <<"k", "a", "l", "e">>, v |-> Dec(3, 0)] >>

(* no prices at all *)
PriceBody5 ==
    <<>>

PriceBodies == {PriceBody1, PriceBody2, PriceBody3, PriceBody4, PriceBody5}

(* ------------------------------------------------------------------ *)
(* calculations.py, handlers.py: format_decimal                       *)
(* ------------------------------------------------------------------ *)

digits == <<"0", "1", "2", "3", "4", "5", "6", "7", "8", "9">>

(* str(n) for an integer n >= 0 *)
RECURSIVE str_int(_)
str_int(n) ==
    IF n < 10 THEN <<digits[n + 1]>>
    ELSE Append(str_int(n \div 10), digits[(n % 10) + 1])

(* s padded with zeros on the left to the width *)
RECURSIVE zfill(_, _)
zfill(s, width) == IF Len(s) >= width THEN s ELSE zfill(<<"0">> \o s, width)

(* |value| * 10^places as an integer, rounded half to even *)
quantize(value, places) ==
    LET shift == value.e + places
        a == Abs(value.c)
    IN  IF shift >= 0 THEN a * 10 ^ shift
        ELSE LET d == 10 ^ (-shift)
                 q == a \div d
                 r == a % d
             IN  IF 2 * r > d \/ (2 * r = d /\ q % 2 = 1) THEN q + 1 ELSE q

(* f"{value:.<places>f}" *)
format_f(value, places) ==
    LET n == quantize(value, places)
    IN  (IF value.c < 0 THEN <<"-">> ELSE <<>>)
          \o str_int(n \div 10 ^ places)
          \o <<".">>
          \o zfill(str_int(n % 10 ^ places), places)

(* s.rstrip(ch) *)
RECURSIVE rstrip(_, _)
rstrip(s, ch) ==
    IF s # <<>> /\ s[Len(s)] = ch THEN rstrip(SubSeq(s, 1, Len(s) - 1), ch) ELSE s

(* mutant: the test is made on the absolute value *)
fraction_digits_Abs(value) ==
    IF DecCmp(Dec(Abs(value.c), value.e), Dec(1, -1)) < 0 THEN 8 ELSE 4

(* the number of decimals: value < Decimal('0.1') *)
fraction_digits(value) ==
    IF DecCmp(value, Dec(1, -1)) < 0 THEN 8 ELSE 4

format_decimal(value) ==
    LET formatted == format_f(value, fraction_digits(value))
    IN  IF \E i \in 1..Len(formatted) : formatted[i] = "."
        THEN rstrip(rstrip(formatted, "0"), ".")
        ELSE formatted

(* the values format_decimal is given *)
FormatInputs ==
    {Dec(0, 0), Dec(0, -8), Dec(5, -5), Dec(1, -1), Dec(123400000, -8), Dec(2, 0),
     Dec(99999, -6), Dec(123456, -6), Dec(5, -9), Dec(15, -9), Dec(100005, -5),
     Dec(100015, -5), Dec(-5, -2), Dec(-1, -9), Dec(-15, -1), Dec(-123456789, -8)}

(* ------------------------------------------------------------------ *)
(* calls of the two Calculations methods                              *)
(* ------------------------------------------------------------------ *)

(* the oil_unit_cost a caller passes to calculate_lavapit_costs *)
OilUnitCosts == {Dec(57, -1), Dec(2, 0)}

(* an exception of get_prices goes through the method to its caller *)
Propagated(exc) == [type |-> "Exception", msg |-> exc.msg]

(* the method from the return of get_prices to its own return *)
CalcFinish(name, resource_type, oil_unit_cost, prices) ==
    returned' = IF prices.type # "table" THEN Propagated(prices)
              ELSE IF name = "calculate_oil_cost"
              THEN calculate_oil_cost(prices.data, resource_type)
              ELSE calculate_lavapit_costs(prices.data, oil_unit_cost, resource_type)

(* one of the two methods is called: up to the await inside get_prices, *)
(* or to the return when the prices come from the cache                 *)
CalcCall(p, name, resource_type, oil_unit_cost) ==
    /\ ~calc.running
    /\ Enter(p, "get_prices")
    /\ IF pc'[p] = "idle"
       THEN /\ CalcFinish(name, resource_type, oil_unit_cost, last'.ret)
            /\ calc' = [name |-> name, resource_type |-> resource_type,
                        oil_unit_cost |-> oil_unit_cost, running |-> FALSE]
       ELSE /\ calc' = [name |-> name, resource_type |-> resource_type,
                        oil_unit_cost |-> oil_unit_cost, running |-> TRUE]
            /\ returned' = NoCalcResult
    /\ UNCHANGED handlerVars

CalculateOilCost(p, resource_type) ==
    CalcCall(p, "calculate_oil_cost", resource_type, Dec(0, 0))

CalculateLavapitCosts(p, oil_unit_cost, resource_type) ==
    CalcCall(p, "calculate_lavapit_costs", resource_type, oil_unit_cost)

(* format_decimal(value) is called: it returns at once *)
FormatDecimal(value) ==
    /\ ~calc.running
    /\ returned' = [type |-> "str", value |-> value, text |-> format_decimal(value)]
    /\ calc' = NoCalc
    /\ last' = NoCall
    /\ UNCHANGED <<now, attrs, pc, func, attempt, wakeAt, waits, httpCalls, outcomeOf,
                   sawExpired, ncalls, nextId, succeeded, inflight, overtaken>>
    /\ UNCHANGED handlerVars

(* the GET of the suspended method completes *)
CalcResponse(p, outcome, raw) ==
    /\ calc.running
    /\ Response(p, outcome, parse_prices(raw))
    /\ IF pc'[p] = "idle"
       THEN /\ CalcFinish(calc.name, calc.resource_type, calc.oil_unit_cost, last'.ret)
            /\ calc' = [calc EXCEPT !.running = FALSE]
       ELSE /\ returned' = NoCalcResult
            /\ UNCHANGED calc
    /\ UNCHANGED handlerVars

CalcWakeUp(p) ==
    /\ WakeUp(p)
    /\ returned' = NoCalcResult
    /\ UNCHANGED <<calc, handlerVars>>

CalcTick ==
    /\ Tick
    /\ returned' = NoCalcResult
    /\ calc' = IF calc.running THEN calc ELSE NoCalc
    /\ UNCHANGED handlerVars

(* the coroutine that calls the Calculations object *)
CalcProc == CHOOSE p \in Procs : \A q \in Procs : p <= q

NextCalc ==
    \/ \E resource_type \in ResourceTypes : CalculateOilCost(CalcProc, resource_type)
    \/ \E oil_unit_cost \in OilUnitCosts, resource_type \in ResourceTypes :
          CalculateLavapitCosts(CalcProc, oil_unit_cost, resource_type)
    \/ \E value \in FormatInputs : FormatDecimal(value)
    \/ \E outcome \in Outcomes, raw \in PriceBodies : CalcResponse(CalcProc, outcome, raw)
    \/ CalcWakeUp(CalcProc)
    \/ CalcTick

SpecCalc == Init /\ [][NextCalc]_vars

(* ------------------------------------------------------------------ *)
(* handlers.py, web_health.py: the message handler, the oil command   *)
(* and the two status reports                                         *)
(* ------------------------------------------------------------------ *)

(* MARKET_FEE of config.py, at its default *)
MARKET_FEE == Dec(10, -2)

(* the texts handle_item receives: the filter lets commands through only. *)
(* form: longer than MAX_INPUT_LENGTH, not matched by the pattern (a line *)
(* break in it), an amount Decimal() refuses ("1.2.3"), or a command with *)
(* its amount, <<>> when there is none                                    *)
Texts ==
    [form : {"too_long", "no_match", "bad_amount"}, command : {"wood"}, amount : {<<>>}]
      \cup [form : {"command"}, command : {"usd", "flower", "wood"},
             amount : {<<>>, <<Dec(9, -9)>>, <<Dec(2, 0)>>}]

(* a handler that ends without calling the store *)
Replies(p, name, amount, user_id, chat_id, kind, error, counted) ==
    /\ ~handler.running
    /\ pc[p] = "idle"
    /\ command_count + counted < MaxCommands
    /\ command_count' = command_count + counted + 1
    /\ update_user_stats(user_id)
    /\ error_stats' = IF error = "" THEN error_stats
                      ELSE [error_stats EXCEPT ![error] = @ + 1]
    /\ reply' = [kind |-> kind, value |-> <<>>, ad |-> FALSE]
    /\ handler' = [name |-> name, amount |-> amount, chat |-> chat_id, running |-> FALSE]
    /\ last' = NoCall
    /\ UNCHANGED <<now, attrs, pc, func, attempt, wakeAt, waits, httpCalls, outcomeOf,
                   sawExpired, ncalls, nextId, succeeded, inflight, overtaken>>
    /\ UNCHANGED <<today, advertisement_shown>>

(* handle_item: Handlers has no method handle_item_conversion, so the    *)
(* last branch raises AttributeError, which the except of line 708 takes *)
HandleItem(p, text, user_id, chat_id) ==
    CASE text.form = "too_long" ->
             Replies(p, "input", Dec(0, 0), user_id, chat_id, "input_too_long", "input", 0)
      [] text.form = "no_match" ->
             Replies(p, "input", Dec(0, 0), user_id, chat_id, "invalid_format", "input", 0)
      [] text.form = "bad_amount" ->
             Replies(p, "input", Dec(0, 0), user_id, chat_id, "invalid_amount_format", "input", 0)
      [] text.form = "command" /\ text.command \in {"usd", "flower"} /\ text.amount = <<>> ->
             Replies(p, "input", Dec(0, 0), user_id, chat_id, "example", "", 0)
      [] text.form = "command" /\ text.command \in {"usd", "flower"} /\ text.amount # <<>> ->
             Conversion(p, text.command, text.amount[1], user_id, chat_id, 1)
      [] text.form = "command" /\ text.command \notin {"usd", "flower"} /\ text.amount = <<>> ->
             Replies(p, "item_bare", Dec(0, 0), user_id, chat_id, "error_processing", "other", 0)
      [] text.form = "command" /\ text.command \notin {"usd", "flower"} /\ text.amount # <<>> ->
             Replies(p, "item", text.amount[1], user_id, chat_id, "error_processing", "other", 0)

(* mutant: the leather of the three drills is counted as the wool is, 60 *)
oil_production_Wool(prices) ==
    LET wood_price == get(prices, s_wood, Dec(0, 0))
        iron_price == get(prices, s_iron, Dec(0, 0))
        leather_price == get(prices, s_leather, Dec(0, 0))
        total_wood_cost == DecMul(Dec(60, 0), wood_price)
        total_iron_cost == DecMul(Dec(27, 0), iron_price)
        total_leather_cost == DecMul(Dec(60, 0), leather_price)
        total_cost == DecAdd(DecAdd(total_wood_cost, total_iron_cost), total_leather_cost)
        unit_price == DecDiv(total_cost, Dec(50, 0))
    IN  [missing |-> \E price \in {wood_price, iron_price, leather_price} :
                         DecEq(price, Dec(0, 0)),
         total_wood_cost |-> total_wood_cost,
         total_iron_cost |-> total_iron_cost,
         total_leather_cost |-> total_leather_cost,
         total_cost |-> total_cost,
         unit_price |-> unit_price,
         price_10 |-> DecMul(unit_price, Dec(10, 0)),
         price_50 |-> DecMul(unit_price, Dec(50, 0))]

(* handle_oil, lines 303-324: the prices it needs, the test for a missing *)
(* one and the cost of 3 drills (50 oil), computed in the handler         *)
oil_production(prices) ==
    LET wood_price == get(prices, s_wood, Dec(0, 0))
        iron_price == get(prices, s_iron, Dec(0, 0))
        leather_price == get(prices, s_leather, Dec(0, 0))
        total_wood_cost == DecMul(Dec(60, 0), wood_price)
        total_iron_cost == DecMul(Dec(27, 0), iron_price)
        total_leather_cost == DecMul(Dec(30, 0), leather_price)
        total_cost == DecAdd(DecAdd(total_wood_cost, total_iron_cost), total_leather_cost)
        unit_price == DecDiv(total_cost, Dec(50, 0))
    IN  [missing |-> \E price \in {wood_price, iron_price, leather_price} :
                         DecEq(price, Dec(0, 0)),
         total_wood_cost |-> total_wood_cost,
         total_iron_cost |-> total_iron_cost,
         total_leather_cost |-> total_leather_cost,
         total_cost |-> total_cost,
         unit_price |-> unit_price,
         price_10 |-> DecMul(unit_price, Dec(10, 0)),
         price_50 |-> DecMul(unit_price, Dec(50, 0))]

(* handle_oil from the return of get_prices to its end *)
OilFinish(chat_id, prices) ==
    IF prices.type # "table"
    THEN /\ error_stats' = [error_stats EXCEPT !.calculation = @ + 1]
         /\ reply' = [kind |-> "oil_error", value |-> <<>>, ad |-> FALSE]
         /\ UNCHANGED advertisement_shown
    ELSE LET oil == oil_production(prices.data)
         IN  IF oil.missing
             THEN /\ error_stats' = [error_stats EXCEPT !.api = @ + 1]
                  /\ reply' = [kind |-> "missing_prices", value |-> <<>>, ad |-> FALSE]
                  /\ UNCHANGED advertisement_shown
             ELSE /\ reply' = [kind |-> "oil",
                               value |-> <<oil.total_wood_cost, oil.total_iron_cost,
                                           oil.total_leather_cost, oil.total_cost,
                                           oil.unit_price, oil.price_10, oil.price_50>>,
                               ad |-> ad_count(chat_id) % 10 = 0]
                  /\ send_advertisement(chat_id)
                  /\ UNCHANGED error_stats

(* handle_lavapit, lines 359-374: the same prices, test and cost, written *)
(* out again in that handler                                              *)
lavapit_oil(prices) ==
    LET wood_price == get(prices, s_wood, Dec(0, 0))
        iron_price == get(prices, s_iron, Dec(0, 0))
        leather_price == get(prices, s_leather, Dec(0, 0))
        total_wood_cost == DecMul(Dec(60, 0), wood_price)
        total_iron_cost == DecMul(Dec(27, 0), iron_price)
        total_leather_cost == DecMul(Dec(30, 0), leather_price)
        total_oil_cost == DecAdd(DecAdd(total_wood_cost, total_iron_cost), total_leather_cost)
    IN  [missing |-> \E price \in {wood_price, iron_price, leather_price} :
                         DecEq(price, Dec(0, 0)),
         total_oil_cost |-> total_oil_cost,
         oil_unit_cost |-> DecDiv(total_oil_cost, Dec(50, 0))]

(* sum(data["total"] for data in season_costs.values()) *)
RECURSIVE grand_total(_)
grand_total(costs) ==
    IF costs = <<>> THEN Dec(0, 0) ELSE DecAdd(costs[1].total, grand_total(Tail(costs)))

(* handle_lavapit from the return of get_prices to its end *)
LavapitFinish(chat_id, prices) ==
    IF prices.type # "table"
    THEN /\ error_stats' = [error_stats EXCEPT !.calculation = @ + 1]
         /\ reply' = [kind |-> "lavapit_error", value |-> <<>>, ad |-> FALSE]
         /\ UNCHANGED advertisement_shown
    ELSE LET oil == lavapit_oil(prices.data)
         IN  IF oil.missing
             THEN /\ error_stats' = [error_stats EXCEPT !.api = @ + 1]
                  /\ reply' = [kind |-> "missing_oil_prices", value |-> <<>>, ad |-> FALSE]
                  /\ UNCHANGED advertisement_shown
             ELSE LET costs == season_costs(prices.data, oil.oil_unit_cost)
                  IN  /\ reply' = [kind |-> "lavapit",
                                    value |-> <<oil.total_oil_cost, oil.oil_unit_cost,
                                                costs, grand_total(costs)>>,
                                    ad |-> ad_count(chat_id) % 10 = 0]
                      /\ send_advertisement(chat_id)
                      /\ UNCHANGED error_stats

(* a handler that starts with get_prices, up to the await inside it or to *)
(* the handler's end                                                      *)
PricesHandler(p, name, user_id, chat_id) ==
    /\ ~handler.running
    /\ command_count < MaxCommands
    /\ command_count' = command_count + 1
    /\ update_user_stats(user_id)
    /\ UNCHANGED today
    /\ Enter(p, "get_prices")
    /\ IF pc'[p] = "idle"
       THEN /\ IF name = "oil" THEN OilFinish(chat_id, last'.ret)
                               ELSE LavapitFinish(chat_id, last'.ret)
            /\ handler' = [name |-> name, amount |-> Dec(0, 0), chat |-> chat_id,
                           running |-> FALSE]
       ELSE /\ handler' = [name |-> name, amount |-> Dec(0, 0), chat |-> chat_id,
                           running |-> TRUE]
            /\ reply' = NoReply
            /\ UNCHANGED <<error_stats, advertisement_shown>>

(* handle_oil *)
HandleOil(p, user_id, chat_id) == PricesHandler(p, "oil", user_id, chat_id)

(* handle_lavapit *)
HandleLavapit(p, user_id, chat_id) == PricesHandler(p, "lavapit", user_id, chat_id)

(* timedelta.seconds: the seconds field of the normalised (days, seconds) *)
timedelta_seconds(delta) == delta % 86400

(* timedelta.total_seconds() *)
total_seconds(delta) == delta

max(a, b) == IF a >= b THEN a ELSE b

(* handle_status, lines 272-288: one cache's line of the report *)
status_line(a, f, t) ==
    LET ttl == IF hasattr(a, expiry_attr(f))
               THEN timedelta_seconds(getattr(a, expiry_attr(f)) - t) ELSE 0
    IN  [valid |-> ttl > 0, ttl |-> max(0, ttl)]

(* handle_ping, lines 31-40: one cache's line of the report *)
ping_line(a, f, t) ==
    LET ttl == IF hasattr(a, expiry_attr(f))
               THEN total_seconds(getattr(a, expiry_attr(f)) - t) ELSE 0
    IN  [valid |-> ttl > 0, ttl |-> max(0, ttl)]

(* handle_status: it does not call the store *)
HandleStatus(p, user_id, chat_id) ==
    /\ ~handler.running
    /\ pc[p] = "idle"
    /\ command_count < MaxCommands
    /\ command_count' = command_count + 1
    /\ update_user_stats(user_id)
    /\ reply' = [kind |-> "status",
                 value |-> <<status_line(attrs, "get_prices", now),
                             status_line(attrs, "get_exchange_rates", now)>>,
                 ad |-> ad_count(chat_id) % 10 = 0]
    /\ send_advertisement(chat_id)
    /\ handler' = [name |-> "status", amount |-> Dec(0, 0), chat |-> chat_id, running |-> FALSE]
    /\ last' = NoCall
    /\ UNCHANGED <<now, attrs, pc, func, attempt, wakeAt, waits, httpCalls, outcomeOf,
                   sawExpired, ncalls, nextId, succeeded, inflight, overtaken>>
    /\ UNCHANGED <<today, error_stats>>

(* GET /ping of the web server on the same event loop: it runs whenever *)
(* no coroutine is running, also while a handler awaits                 *)
Ping ==
    /\ reply' = [kind |-> "ping",
                 value |-> <<ping_line(attrs, "get_prices", now),
                             ping_line(attrs, "get_exchange_rates", now)>>,
                 ad |-> FALSE]
    /\ handler' = Pending
    /\ last' = NoCall
    /\ UNCHANGED <<now, attrs, pc, func, attempt, wakeAt, waits, httpCalls, outcomeOf,
                   sawExpired, ncalls, nextId, succeeded, inflight, overtaken>>
    /\ UNCHANGED <<command_count, error_stats, unique_users, daily_users, last_reset,
                   today, advertisement_shown>>

(* the price tables the oil command is answered with *)
OilBodies == {PriceBody1, PriceBody3, PriceBody4, PriceBody5}

(* what get_prices makes of them *)
OilTables == {parse_prices(raw) : raw \in OilBodies}

(* the exchange endpoint's answers to the message handler: a rate, or none *)
ItemRateBodies == {<<>>, <<Dec(5, -1)>>}

(* the GET of the suspended handler completes *)
BotResponse(p, outcome, body) ==
    /\ handler.running
    /\ Response(p, outcome, body)
    /\ IF pc'[p] = "idle"
       THEN /\ CASE handler.name = "oil" -> OilFinish(handler.chat, last'.ret)
                 [] handler.name = "lavapit" -> LavapitFinish(handler.chat, last'.ret)
                 [] OTHER -> ConvFinish(handler.name, handler.amount, handler.chat, last'.ret)
            /\ handler' = [handler EXCEPT !.running = FALSE]
       ELSE /\ reply' = NoReply
            /\ UNCHANGED <<handler, error_stats, advertisement_shown>>
    /\ UNCHANGED <<command_count, unique_users, daily_users, last_reset, today>>

NextBot ==
    \/ \E text \in Texts, user_id \in Users, chat_id \in Chats :
          HandleItem(HandlerProc, text, user_id, chat_id) /\ UNCHANGED calcVars
    \/ \E user_id \in Users, chat_id \in Chats :
          HandleOil(HandlerProc, user_id, chat_id) /\ UNCHANGED calcVars
    \/ \E user_id \in Users, chat_id \in Chats :
          HandleLavapit(HandlerProc, user_id, chat_id) /\ UNCHANGED calcVars
    \/ \E user_id \in Users, chat_id \in Chats :
          HandleStatus(HandlerProc, user_id, chat_id) /\ UNCHANGED calcVars
    \/ Ping /\ UNCHANGED calcVars
    \/ \E outcome \in Outcomes :
          \E body \in IF func[HandlerProc] = "get_prices" THEN OilTables ELSE ItemRateBodies :
              BotResponse(HandlerProc, outcome, body) /\ UNCHANGED calcVars
    \/ ConvWakeUp(HandlerProc) /\ UNCHANGED calcVars
    \/ ConvTick /\ UNCHANGED calcVars

(* the message handler, the oil command and the reports within one day *)
SpecBot == Init /\ [][NextBot]_vars

(* ------------------------------------------------------------------ *)
(* handlers.py: send_advertisement and update_user_stats, called as   *)
(* the handlers call them                                             *)
(* ------------------------------------------------------------------ *)

(* the users the statistics see: one more than the handlers are given, so *)
(* that a second user comes on a later day                                *)
StatUsers == 1..(NumUsers + 1)

(* lines 88-97: the advertisement goes out when forced, or when the chat's *)
(* count before this call is a multiple of 10                             *)
advertisement_sent(chat_id, force) == force \/ ad_count(chat_id) % 10 = 0

(* send_advertisement(update, force): a forced call leaves the counter *)
SendAdvertisement(chat_id, force) ==
    /\ ~handler.running
    /\ force \/ ad_count(chat_id) < MaxAds
    /\ reply' = [kind |-> "advertisement", value |-> <<chat_id, force>>,
                 ad |-> advertisement_sent(chat_id, force)]
    /\ IF force THEN UNCHANGED advertisement_shown ELSE send_advertisement(chat_id)
    /\ last' = NoCall
    /\ UNCHANGED <<now, attrs, pc, func, attempt, wakeAt, waits, httpCalls, outcomeOf,
                   sawExpired, ncalls, nextId, succeeded, inflight, overtaken>>
    /\ UNCHANGED <<handler, command_count, error_stats, unique_users, daily_users,
                   last_reset, today>>

(* update_user_stats(user_id) *)
UpdateUserStats(user_id) ==
    /\ ~handler.running
    /\ update_user_stats(user_id)
    /\ reply' = [kind |-> "user_stats", value |-> <<user_id>>, ad |-> FALSE]
    /\ last' = NoCall
    /\ UNCHANGED <<now, attrs, pc, func, attempt, wakeAt, waits, httpCalls, outcomeOf,
                   sawExpired, ncalls, nextId, succeeded, inflight, overtaken>>
    /\ UNCHANGED <<handler, command_count, error_stats, today, advertisement_shown>>

NextStats ==
    \/ \E chat_id \in Chats, force \in BOOLEAN :
          SendAdvertisement(chat_id, force) /\ UNCHANGED calcVars
    \/ \E user_id \in StatUsers : UpdateUserStats(user_id) /\ UNCHANGED calcVars
    \/ NewDay /\ UNCHANGED calcVars

SpecStats == Init /\ [][NextStats]_vars

(* ================================================================== *)
(* Properties of the store                                            *)
(* ================================================================== *)

(* coroutine p begins a call of f in this step *)
Starts(p, f) ==
    /\ ncalls' = ncalls + 1
    /\ \/ pc[p] = "idle" /\ pc'[p] = "http" /\ func'[p] = f
       \/ pc' = pc /\ last'.call = ncalls' /\ last'.p = p /\ last'.f = f

(* coroutine p's call of f returns or raises in this step, after a fetch *)
Finishes(p, f) == pc[p] = "http" /\ pc'[p] = "idle" /\ func[p] = f

(* the refresh that ends in this step failed: retries exhausted, or unparsable *)
RefreshFailed(p, f) == Finishes(p, f) /\ last'.outcome # "ok"

PricesEntry(a) ==
    <<IF "_get_prices_cache" \in DOMAIN a THEN <<a["_get_prices_cache"]>> ELSE <<>>,
      IF "_get_prices_expiry" \in DOMAIN a THEN <<a["_get_prices_expiry"]>> ELSE <<>> >>

ExchangeEntry(a) ==
    <<IF "_get_exchange_rates_cache" \in DOMAIN a THEN <<a["_get_exchange_rates_cache"]>> ELSE <<>>,
      IF "_get_exchange_rates_expiry" \in DOMAIN a THEN <<a["_get_exchange_rates_expiry"]>> ELSE <<>> >>

EntryOf(a, f) == IF f = "get_prices" THEN PricesEntry(a) ELSE ExchangeEntry(a)

CachedTable(a, f) == EntryOf(a, f)[1][1].val
StoredExpiry(a, f) == EntryOf(a, f)[2][1].val
HasTable(a, f) == EntryOf(a, f)[1] # <<>>
HasExpiry(a, f) == EntryOf(a, f)[2] # <<>>

(* C1: a call made while an entry exists and now < its expiry returns the  *)
(* cached table, issues no fetch_data call and no HTTP request, and leaves *)
(* the entry alone, however many calls are made within the TTL.            *)
C1_HitWithinTTL ==
    [][\A p \in Procs, f \in Funcs :
          (Starts(p, f) /\ HasTable(attrs, f) /\ HasExpiry(attrs, f)
              /\ now < StoredExpiry(attrs, f))
          => /\ last'.p = p /\ last'.how = "hit"
             /\ last'.ret = CachedTable(attrs, f)
             /\ pc'[p] = "idle"
             /\ last'.fetchCalls = 0 /\ last'.httpCalls = 0
             /\ httpCalls' = httpCalls
             /\ attrs' = attrs]_vars

(* the third call in a row served one and the same table from the cache *)
C1_Witness ==
    /\ last.how = "hit" /\ last.f = "get_prices" /\ last.call >= 3
    /\ last.ret = CachedTable(attrs, "get_prices")
    /\ nextId = 2

(* C2: a refresh that fails after some call of the same method succeeded   *)
(* returns the cached table, expired or not, and does not raise.           *)
C2_StaleOnFailure ==
    [][\A p \in Procs, f \in Funcs :
          (RefreshFailed(p, f) /\ succeeded[f])
          => /\ last'.p = p
             /\ last'.ret.type = "table"
             /\ HasTable(attrs, f)
             /\ last'.ret = CachedTable(attrs, f)]_vars

(* retries exhausted on an expired entry, the stale table came back *)
C2_Witness ==
    /\ last.how = "stale" /\ last.sawExpired
    /\ last.fetchErr.type # "none"
    /\ last.ret.type = "table"

(* C3: a refresh whose fetch fails leaves the stored value and the stored  *)
(* expiry exactly as they were.                                            *)
C3_FailedRefreshWritesNothing ==
    [][\A p \in Procs, f \in Funcs : RefreshFailed(p, f) => attrs' = attrs]_vars

(* C4: with no earlier success, a failed fetch makes the call raise and    *)
(* leaves neither value nor expiry, so a later call fetches again.         *)
C4_ColdFailure ==
    [][\A p \in Procs, f \in Funcs :
          /\ (RefreshFailed(p, f) /\ ~succeeded[f])
             => /\ last'.p = p
                /\ last'.ret.type = "Exception"
                /\ last'.ret.msg = ErrorPrefix(f)
                /\ ~HasTable(attrs', f)
                /\ ~HasExpiry(attrs', f)
          /\ (Starts(p, f) /\ ~succeeded[f])
             => pc'[p] = "http" /\ httpCalls'[p] = 1]_vars

(* a call has just raised on a cold cache after three attempts, while      *)
(* another call of the same method is fetching                             *)
C4_Witness ==
    \E p \in Procs :
        /\ last.how = "raised" /\ last.ret.type = "Exception"
        /\ last.fetchErr.type # "none"
        /\ ~succeeded[last.f]
        /\ p # last.p /\ pc[p] = "http" /\ func[p] = last.f /\ ncalls >= 2

(* C5: a call that began on an expired entry and whose fetch succeeds has  *)
(* invoked fetch_data once, stores the new table with expiry now + TTL     *)
(* (now read when the result is stored) and returns the new table.         *)
C5_RefreshAfterTTL ==
    [][\A p \in Procs, f \in Funcs :
          (Finishes(p, f) /\ last'.outcome = "ok" /\ sawExpired[p])
          => /\ last'.p = p
             /\ last'.fetchCalls = 1
             /\ last'.ret.type = "table"
             /\ HasTable(attrs, f) => last'.ret.id # CachedTable(attrs, f).id
             /\ CachedTable(attrs', f) = last'.ret
             /\ StoredExpiry(attrs', f) = now + CACHE_TTL]_vars

(* a single GET refreshed an expired entry *)
C5_Witness ==
    /\ last.how = "fresh" /\ last.sawExpired /\ last.httpCalls = 1
    /\ CachedTable(attrs, last.f) = last.ret

(* progress measure of one fetch_data call *)
Variant(p) == 2 * attempt[p] + (IF pc[p] = "backoff" THEN 1 ELSE 0)

(* C6: one fetch_data call makes at most 3 HTTP attempts, stops at the     *)
(* first success, retries after each kind of failure, waits 1 then 2      *)
(* before attempts 2 and 3, and every step of it makes progress towards   *)
(* its end (at most 6 steps).                                             *)
C6_RetryPolicy ==
    /\ [](/\ \A p \in Procs :
               /\ attempt[p] <= 3 /\ httpCalls[p] <= 3
               /\ httpCalls[p] = attempt[p]
               /\ Len(waits[p]) <= 2
               /\ \A i \in 1..Len(waits[p]) : waits[p][i] = i
               /\ pc[p] = "http" => Len(waits[p]) = attempt[p] - 1 /\ outcomeOf[p] = "none"
               /\ pc[p] = "backoff" => Len(waits[p]) = attempt[p] /\ outcomeOf[p] \in FailedAttempt
           /\ last.httpCalls <= 3
           /\ Len(last.waits) = (IF last.httpCalls = 0 THEN 0 ELSE last.httpCalls - 1)
           /\ \A i \in 1..Len(last.waits) : last.waits[i] = i
           /\ (last.outcome \in FailedAttempt) => last.httpCalls = 3)
    /\ [][\A p \in Procs :
            /\ (pc[p] = "http" /\ pc'[p] = "idle")
                  => /\ last'.p = p /\ last'.httpCalls = httpCalls[p]
                     /\ last'.outcome \in FailedAttempt => attempt[p] = 3
            /\ (pc[p] = "http" /\ pc'[p] = "backoff")
                  => /\ attempt[p] < 3
                     /\ wakeAt'[p] = now + attempt[p]
                     /\ httpCalls'[p] = httpCalls[p]
            /\ (pc[p] = "backoff" /\ pc'[p] # "backoff")
                  => /\ now >= wakeAt[p]
                     /\ pc'[p] = "http"
                     /\ httpCalls'[p] = httpCalls[p] + 1
            /\ (pc[p] # "idle" /\ pc'[p] # pc[p])
                  => pc'[p] = "idle" \/ Variant(p)' > Variant(p)]_vars

(* the third attempt is in flight after waits of 1 and 2 *)
C6_Witness ==
    \E p \in Procs : pc[p] = "http" /\ attempt[p] = 3 /\ waits[p] = <<1, 2>>

(* the class the error taxonomy gives an exception *)
ErrorClass(exc) ==
    CASE exc.type = "Exception" /\ exc.msg = "Connection error" -> "TransportError"
      [] exc.type = "Exception" /\ exc.msg \in {"HTTP error", "JSON parsing error"} -> "ProtocolError"
      [] OTHER -> "unclassified"

ExpectedClass(outcome) ==
    IF outcome = "conn_error" THEN "TransportError" ELSE "ProtocolError"

(* C7: when all attempts fail, what fetch_data raises to its caller is the *)
(* classified error of the last attempt.                                   *)
C7_FinalErrorIsClassified ==
    last.fetchErr.type # "none"
    => ErrorClass(last.fetchErr) = ExpectedClass(last.outcome)

(* C8: at every suspension point an expiry exists only together with a     *)
(* table, and both were written by the same coroutine's store.             *)
C8_NoTornEntry ==
    \A f \in Funcs :
        /\ HasExpiry(attrs, f) <=> HasTable(attrs, f)
        /\ HasExpiry(attrs, f)
             => /\ EntryOf(attrs, f)[1][1].by = EntryOf(attrs, f)[2][1].by
                /\ CachedTable(attrs, f).type = "table"
                /\ CachedTable(attrs, f).of = f

(* two refreshes of the same expired entry overlap and one has stored *)
C8_Witness ==
    \E p \in Procs :
        /\ pc[p] = "http" /\ sawExpired[p] /\ func[p] = last.f
        /\ last.how \in {"fresh", "stale"} /\ last.sawExpired /\ last.p # p
        /\ EntryOf(attrs, last.f)[2][1].by = last.p

(* C9: a step of a get_prices call leaves the exchange entry unchanged and *)
(* a step of a get_exchange_rates call leaves the price entry unchanged.   *)
C9_EntriesIndependent ==
    [][\A p \in Procs, f \in Funcs :
          (Starts(p, f) \/ (pc'[p] # pc[p] /\ func[p] = f))
          => /\ f = "get_prices" => ExchangeEntry(attrs') = ExchangeEntry(attrs)
             /\ f = "get_exchange_rates" => PricesEntry(attrs') = PricesEntry(attrs)]_vars

(* both entries exist and a get_prices refresh has just replaced the older one *)
C9_Witness ==
    /\ last.how = "fresh" /\ last.f = "get_prices" /\ last.sawExpired
    /\ HasTable(attrs, "get_exchange_rates")
    /\ CachedTable(attrs, "get_prices").id > CachedTable(attrs, "get_exchange_rates").id

(* a refresh of the expired price entry ends in this step with the table it *)
(* fetched, after a refresh that entered later has stored its own           *)
FinishesOvertaken(p) ==
    /\ Finishes(p, "get_prices")
    /\ last'.outcome = "ok"
    /\ sawExpired[p]
    /\ overtaken[p]

(* C20 as claimed: when two get_prices refreshes of an expired entry       *)
(* overlap, both fetch, and the refresh that started earlier and finishes  *)
(* later does not overwrite the table stored by the one that started last. *)
C20_LastStartWins ==
    [][\A p \in Procs :
          FinishesOvertaken(p)
          => /\ last'.fetchCalls = 1 /\ last'.httpCalls >= 1
             /\ CachedTable(attrs', "get_prices") = CachedTable(attrs, "get_prices")]_vars

(* C20 as amended: when two get_prices refreshes of an expired entry       *)
(* overlap, both fetch, and the cache holds the table of the refresh that  *)
(* completed last: the refresh that started earlier and finishes later     *)
(* replaces the table stored by the one that started last.                 *)
C20_LastCompletionWins ==
    [][\A p \in Procs :
          /\ (pc[p] = "http" /\ func[p] = "get_prices" /\ sawExpired[p])
                => httpCalls[p] >= 1
          /\ FinishesOvertaken(p)
                => /\ last'.p = p /\ last'.how = "fresh"
                   /\ last'.fetchCalls = 1 /\ last'.httpCalls >= 1
                   /\ CachedTable(attrs', "get_prices") = last'.ret
                   /\ CachedTable(attrs', "get_prices").id > CachedTable(attrs, "get_prices").id
                   /\ StoredExpiry(attrs', "get_prices") = now + CACHE_TTL
                   /\ EntryOf(attrs', "get_prices")[1][1].by = p]_vars

(* the refresh that entered first has just replaced the later one's table *)
C20_Witness ==
    /\ last.f = "get_prices" /\ last.how = "fresh"
    /\ last.sawExpired /\ last.overtaken
    /\ CachedTable(attrs, "get_prices") = last.ret
    /\ EntryOf(attrs, "get_prices")[1][1].by = last.p

(* ================================================================== *)
(* Properties of the conversion handlers                              *)
(* ================================================================== *)

(* an amount in units of 0.000000001 *)
Nano(d) == d.c * 10 ^ (d.e + 9)

(* a conversion handler is called in this step *)
Handles == command_count' = command_count + 1

(* C10: validate_amount holds exactly for amounts >= 0.00000001, and a     *)
(* conversion handler called with a smaller amount counts one 'input'     *)
(* error and ends without a get_exchange_rates call, an HTTP request or a *)
(* converted value; no other amount is refused as too small.              *)
C10_AmountGuard ==
    /\ [](\A a \in Decimals : validate_amount(a) <=> Nano(a) >= 10)
    /\ [][Handles =>
            /\ reply'.kind = "amount_too_small" <=> Nano(handler'.amount) < 10
            /\ Nano(handler'.amount) < 10
                 => /\ error_stats' = [error_stats EXCEPT !.input = @ + 1]
                    /\ ncalls' = ncalls
                    /\ pc' = pc /\ httpCalls' = httpCalls /\ attrs' = attrs
                    /\ ~handler'.running
                    /\ reply'.value = <<>>
                    /\ advertisement_shown' = advertisement_shown]_vars

(* 0.000000009 Flower was refused, and the amount 0.00000001 had been accepted *)
C10_Witness ==
    /\ reply.kind = "amount_too_small"
    /\ handler.amount = Dec(9, -9)
    /\ error_stats.input = 1
    /\ ncalls = 1 /\ command_count = 2

(* one of the two conversion handlers ended in this step, past the amount test *)
RateSeen == reply'.kind \in {"invalid_rate", "converted", "calculation_error"}

(* the rate the handler read from the table get_exchange_rates returned *)
RateRead == flower_rate_of(last'.ret)

(* C11: the conversion handlers answer "invalid rate" exactly when the     *)
(* sfl/usd rate is absent, zero or negative; they then count one 'api'    *)
(* error, show no converted value and no advertisement, and no division   *)
(* by zero happens; a converted value is shown only for a rate > 0.       *)
C11_RateGuard ==
    [][RateSeen =>
          /\ last'.ret.type = "table"
          /\ reply'.kind # "calculation_error"
          /\ reply'.kind = "invalid_rate"
                <=> (last'.ret.data = <<>> \/ RateRead.c <= 0)
          /\ reply'.kind = "invalid_rate"
                => /\ error_stats' = [error_stats EXCEPT !.api = @ + 1]
                   /\ reply'.value = <<>> /\ ~reply'.ad
                   /\ advertisement_shown' = advertisement_shown
          /\ reply'.kind = "converted"
                => /\ RateRead.c > 0
                   /\ error_stats' = error_stats]_vars

(* /flower 0.00000001 was refused because the table holds the rate 0 *)
C11_Witness ==
    /\ reply.kind = "invalid_rate"
    /\ handler.name = "flower" /\ handler.amount = Dec(1, -8)
    /\ last.ret.data = <<Dec(0, 0)>>
    /\ error_stats.api = 1

(* ================================================================== *)
(* Properties of the calculations                                     *)
(* ================================================================== *)

(* a decimal in units of 0.0001 *)
Units(d) == d.c * 10 ^ (d.e + 4)

(* a call of the named Calculations method ended in the step to this state *)
CalcEnded(name) == calc.name = name /\ ~calc.running /\ last.f = "get_prices"

(* the table get_prices returned to the call that just ended *)
PricesSeen == last.ret.data

(* the price the table has for a key, 0 when it has none *)
PriceUnits(prices, key) ==
    IF \E i \in 1..Len(prices) : prices[i].k = key
    THEN Units(prices[CHOOSE i \in 1..Len(prices) : prices[i].k = key].v)
    ELSE 0

ResourceUnits(prices, resource_type) ==
    PriceUnits(prices, IF resource_type = "leather" THEN s_leather ELSE s_wool)

(* the three prices calculate_oil_cost needs are in the table and not zero *)
OilPricesKnown(prices, resource_type) ==
    /\ PriceUnits(prices, s_wood) # 0
    /\ PriceUnits(prices, s_iron) # 0
    /\ ResourceUnits(prices, resource_type) # 0

(* C13: on a table with non-zero wood, iron and resource prices            *)
(* calculate_oil_cost returns total_cost = 60*wood + 27*iron + q*resource  *)
(* with q = 30 for leather and 60 for wool, total_cost the sum of the      *)
(* three returned costs, unit_price = total_cost / 50, price_10 =          *)
(* unit_price * 10 and price_50 = unit_price * 50.                         *)
C13_OilCost ==
    (/\ CalcEnded("calculate_oil_cost")
     /\ last.ret.type = "table"
     /\ OilPricesKnown(PricesSeen, calc.resource_type))
    => /\ returned.type = "dict"
       /\ Units(returned.total_cost)
            = 60 * PriceUnits(PricesSeen, s_wood) + 27 * PriceUnits(PricesSeen, s_iron)
              + (IF calc.resource_type = "leather" THEN 30 ELSE 60)
                * ResourceUnits(PricesSeen, calc.resource_type)
       /\ Units(returned.total_cost)
            = Units(returned.total_wood_cost) + Units(returned.total_iron_cost)
              + Units(returned.total_resource_cost)
       /\ 50 * Units(returned.unit_price) = Units(returned.total_cost)
       /\ Units(returned.price_10) = 10 * Units(returned.unit_price)
       /\ Units(returned.price_50) = 50 * Units(returned.unit_price)

(* wood 2, iron 5, leather 1: total 285, unit 5.7, ten 57, fifty 285 *)
C13_Witness ==
    /\ CalcEnded("calculate_oil_cost") /\ calc.resource_type = "leather"
    /\ returned.type = "dict"
    /\ PricesSeen = PriceBody1
    /\ returned.total_cost = Dec(285, 0)
    /\ returned.unit_price = Dec(57, -1)
    /\ Units(returned.price_10) = 570000
    /\ Units(returned.price_50) = 2850000

(* C14: calculate_oil_cost raises and returns nothing when the wood, the   *)
(* iron or the chosen resource's price is zero or absent (or when          *)
(* get_prices raised); whenever it returns a result all three prices were  *)
(* in the table and not zero.                                              *)
C14_MissingPrice ==
    CalcEnded("calculate_oil_cost")
    => /\ returned.type \in {"dict", "Exception"}
       /\ returned.type = "dict"
            <=> /\ last.ret.type = "table"
                /\ OilPricesKnown(PricesSeen, calc.resource_type)

(* the table has wood, iron and wool but no leather, and the leather path raised *)
C14_Witness ==
    /\ CalcEnded("calculate_oil_cost") /\ calc.resource_type = "leather"
    /\ last.ret.type = "table"
    /\ PriceUnits(PricesSeen, s_wood) # 0 /\ PriceUnits(PricesSeen, s_iron) # 0
    /\ \A i \in 1..Len(PricesSeen) : PricesSeen[i].k # s_leather
    /\ returned.type = "Exception"

(* calculate_lavapit_costs returned its season costs in the step to this state *)
LavapitReturned ==
    CalcEnded("calculate_lavapit_costs") /\ last.ret.type = "table"

(* the lines of season number s, and the requirements they come from *)
Lines(s) == returned.season_costs[s].breakdown
Required(s) == seasons[s].requirements

(* a name without the characters of `blanks`, in lower case *)
Squeezed(name, blanks) == lower(SelectSeq(name, LAMBDA c : c \notin blanks))

(* the places of the keys equal to the name once both are squeezed *)
Matches(prices, name, blanks) ==
    {i \in 1..Len(prices) : Squeezed(prices[i].k, blanks) = Squeezed(name, blanks)}

First(S) == CHOOSE i \in S : \A j \in S : i <= j

RECURSIVE SumOfLines(_)
SumOfLines(lines) ==
    IF lines = <<>> THEN 0
    ELSE (IF lines[1].cost = <<>> THEN 0 ELSE Units(lines[1].cost[1]))
         + SumOfLines(Tail(lines))

(* C15: calculate_lavapit_costs returns, for every table and season, one   *)
(* line per ingredient and a total equal to the sum of the costs of the    *)
(* lines that have one; an ingredient with no key in the table gets a      *)
(* 'Not found' line without a cost, and the call still returns.            *)
C15_SeasonTotals ==
    /\ (CalcEnded("calculate_lavapit_costs") /\ last.ret.type = "table")
          => returned.type = "dict"
    /\ LavapitReturned =>
          \A s \in 1..Len(seasons) :
              /\ returned.season_costs[s].season = seasons[s].season
              /\ Len(Lines(s)) = Len(Required(s))
              /\ Units(returned.season_costs[s].total) = SumOfLines(Lines(s))
              /\ \A j \in 1..Len(Required(s)) :
                    /\ Lines(s)[j].cost = <<>> <=> Lines(s)[j].kind = "not_found"
                    /\ (/\ Required(s)[j].item # s_oil
                        /\ Matches(PricesSeen, Required(s)[j].item, {" "}) = {})
                         => /\ Lines(s)[j].kind = "not_found"
                            /\ Lines(s)[j].name = Required(s)[j].item

(* winter: merino wool 400 + onion 200, turnip not found, total 600 *)
C15_Witness ==
    /\ LavapitReturned
    /\ Lines(2)[3].kind = "not_found"
    /\ Lines(2)[1].kind = "market" /\ Lines(2)[2].kind = "market"
    /\ Units(returned.season_costs[2].total) = 6000000

(* C16: the oil line costs quantity * oil_unit_cost and is marked as a     *)
(* production-cost line whether or not the table has a key 'oil'; every    *)
(* other line with a cost is quantity * the market price of its key.       *)
C16_OilLine ==
    LavapitReturned =>
        \A s \in 1..Len(seasons) : \A j \in 1..Len(Required(s)) :
            IF Required(s)[j].item = s_oil
            THEN /\ Lines(s)[j].kind = "production"
                 /\ Lines(s)[j].cost # <<>>
                 /\ Units(Lines(s)[j].cost[1])
                      = Required(s)[j].quantity * Units(calc.oil_unit_cost)
            ELSE /\ Lines(s)[j].kind \in {"market", "not_found"}
                 /\ Lines(s)[j].kind = "market"
                      => Units(Lines(s)[j].cost[1])
                           = Required(s)[j].quantity * PriceUnits(PricesSeen, Lines(s)[j].name)

(* the table sells oil at 9, the oil line is 100 * 5.7 = 570 all the same *)
C16_Witness ==
    /\ LavapitReturned
    /\ PriceUnits(PricesSeen, s_oil) = 90000
    /\ calc.oil_unit_cost = Dec(57, -1)
    /\ Lines(4)[1].kind = "production"
    /\ Units(Lines(4)[1].cost[1]) = 5700000

(* the key the lookup must use when names are compared without `blanks` *)
LookupAgrees(blanks) ==
    LavapitReturned =>
        \A s \in 1..Len(seasons) : \A j \in 1..Len(Required(s)) :
            Required(s)[j].item # s_oil =>
                LET found == Matches(PricesSeen, Required(s)[j].item, blanks)
                IN  /\ found = {} <=> Lines(s)[j].kind = "not_found"
                    /\ found # {}
                         => /\ Lines(s)[j].name = PricesSeen[First(found)].k
                            /\ Lines(s)[j].cost[1].c
                                 = Required(s)[j].quantity * PricesSeen[First(found)].v.c

(* C17 as claimed: a recipe name matches a key when the two are equal      *)
(* after lower-casing and removing all whitespace; the first matching key  *)
(* is used.                                                                *)
C17_AllWhitespace == LookupAgrees({" ", "\t"})

(* C17 as amended: a recipe name matches a key when the two are equal      *)
(* after lower-casing and removing the space characters (no other          *)
(* whitespace); the first matching key in the table's order is used.       *)
C17_FirstMatch == LookupAgrees({" "})

(* 'merinowool' comes before 'merino wool' in the table and is the one used *)
C17_Witness ==
    /\ LavapitReturned
    /\ Cardinality(Matches(PricesSeen, s_merino_wool, {" "})) = 2
    /\ Lines(2)[1].kind = "market"
    /\ Lines(2)[1].name = replace_spaces(s_merino_wool)
    /\ Units(Lines(2)[1].cost[1]) = 14000000

(* format_decimal returned in the step to this state *)
Formatted == returned.type = "str"

DigitOf(ch) == CHOOSE d \in 0..9 : digits[d + 1] = ch

Unsigned(text) == IF text # <<>> /\ text[1] = "-" THEN Tail(text) ELSE text

(* the place of the decimal point, past the end when there is none *)
DotAt(u) ==
    IF \E i \in 1..Len(u) : u[i] = "." THEN CHOOSE i \in 1..Len(u) : u[i] = "."
    ELSE Len(u) + 1

(* an optional sign, digits, and at most one point with digits on both sides *)
IsNumeral(text) ==
    LET u == Unsigned(text)
    IN  /\ u # <<>>
        /\ DotAt(u) > 1
        /\ \A i \in 1..Len(u) : i # DotAt(u) => u[i] \in {digits[d] : d \in 1..10}

(* the magnitude a numeral denotes, in units of 1e-9 *)
RECURSIVE MagnitudeUpTo(_, _)
MagnitudeUpTo(u, n) ==
    IF n = 0 THEN 0
    ELSE MagnitudeUpTo(u, n - 1)
         + (IF n = DotAt(u) THEN 0
            ELSE DigitOf(u[n]) * 10 ^ (9 + DotAt(u) - n - (IF n < DotAt(u) THEN 1 ELSE 0)))

Magnitude(text) == MagnitudeUpTo(Unsigned(text), Len(Unsigned(text)))

(* the text is the value rounded half to even to decimals(value) places, *)
(* written without trailing zeros and without a trailing point           *)
Renders(value, text, places) ==
    LET u == Unsigned(text)
        step == 10 ^ (9 - places)
        off == Magnitude(text) - Abs(Nano(value))
    IN  /\ IsNumeral(text)
        /\ text[1] = "-" <=> value.c < 0
        /\ Magnitude(text) % step = 0
        /\ 2 * Abs(off) <= step
        /\ 2 * Abs(off) = step => (Magnitude(text) \div step) % 2 = 0
        /\ DotAt(u) # Len(u)
        /\ DotAt(u) < Len(u) => u[Len(u)] # "0"

(* the examples of the formatting rule *)
FormatExamples ==
    /\ returned.value = Dec(5, -5) => returned.text = <<"0", ".", "0", "0", "0", "0", "5">>
    /\ returned.value = Dec(1, -1) => returned.text = <<"0", ".", "1">>
    /\ returned.value = Dec(123400000, -8) => returned.text = <<"1", ".", "2", "3", "4">>
    /\ returned.value \in {Dec(0, 0), Dec(0, -8)} => returned.text = <<"0">>

(* C18 as claimed: format_decimal renders with 8 fractional digits when    *)
(* the absolute value is below 0.1 and with 4 otherwise, negative values   *)
(* included, then strips trailing zeros and a trailing decimal point.      *)
C18_ByAbsoluteValue ==
    Formatted =>
        /\ Renders(returned.value, returned.text,
                   IF Abs(Nano(returned.value)) < 100000000 THEN 8 ELSE 4)
        /\ FormatExamples

(* C18 as amended: format_decimal renders with 8 fractional digits when    *)
(* the value itself is below 0.1, so for every negative value, and with 4  *)
(* otherwise, then strips trailing zeros and a trailing decimal point.     *)
C18_ByValue ==
    Formatted =>
        /\ Renders(returned.value, returned.text,
                   IF Nano(returned.value) < 100000000 THEN 8 ELSE 4)
        /\ FormatExamples

(* -1.23456789 keeps its 8 decimals *)
C18_Witness ==
    /\ Formatted
    /\ returned.value = Dec(-123456789, -8)
    /\ returned.text = <<"-", "1", ".", "2", "3", "4", "5", "6", "7", "8", "9">>

(* ================================================================== *)
(* Properties of the message handler and the status reports           *)
(* ================================================================== *)

(* the cached price of wood, when a table with one is cached *)
WoodPriceKnown ==
    /\ HasTable(attrs, "get_prices")
    /\ has_key(CachedTable(attrs, "get_prices").data, s_wood)
    /\ DecCmp(getitem(CachedTable(attrs, "get_prices").data, s_wood), Dec(0, 0)) > 0

(* handle_item answered '/wood <amount>' in the step to this state *)
ItemAnswered == handler.name = "item" /\ ~handler.running /\ reply.kind # "none"

(* C12: '/<item> <amount>' with a valid amount, a known price p of the     *)
(* item, a rate r > 0 and the fee rate f is answered with grossBase =     *)
(* amount*p, grossQuote = grossBase*r, fee = grossQuote*f and netQuote =   *)
(* grossQuote - fee.                                                       *)
C12_ItemConversion ==
    (ItemAnswered /\ validate_amount(handler.amount) /\ WoodPriceKnown)
    => /\ reply.kind = "item_conversion"
       /\ Len(reply.value) = 4
       /\ LET grossBase == reply.value[1]
              grossQuote == reply.value[2]
              fee == reply.value[3]
              netQuote == reply.value[4]
              p == getitem(CachedTable(attrs, "get_prices").data, s_wood)
          IN  /\ DecEq(grossBase, DecMul(handler.amount, p))
              /\ \E body \in RateBodies :
                    /\ body # <<>> /\ DecCmp(body[1], Dec(0, 0)) > 0
                    /\ DecEq(grossQuote, DecMul(grossBase, body[1]))
              /\ DecEq(fee, DecMul(grossQuote, MARKET_FEE))
              /\ DecEq(DecAdd(netQuote, fee), grossQuote)

(* a status report was made in the step to this state *)
Reported == reply.kind \in {"status", "ping"}

ReportedFuncs == <<"get_prices", "get_exchange_rates">>

(* C19: handle_status and /ping show a cache as valid exactly when an      *)
(* entry exists and now < its expiry, with the whole seconds left as TTL; *)
(* an expired or absent entry is shown expired/inactive with TTL 0.        *)
C19_StatusMatchesCache ==
    Reported =>
        \A i \in 1..2 :
            LET f == ReportedFuncs[i]
                live == HasExpiry(attrs, f) /\ now < StoredExpiry(attrs, f)
            IN  /\ reply.value[i].valid = live
                /\ reply.value[i].ttl = IF live THEN StoredExpiry(attrs, f) - now ELSE 0

(* C23: a step in which a message is taken up (the only steps that change *)
(* command_count) adds exactly 1 to it, whichever handlers the message     *)
(* goes through, so the counter is the number of messages handled.         *)
C23_OnePerMessage ==
    [][command_count' # command_count => command_count' = command_count + 1]_vars

(* handle_oil answered from a price table in the step to this state *)
OilAnswered ==
    /\ handler.name = "oil" /\ ~handler.running
    /\ reply.kind \in {"oil", "missing_prices"}

(* handle_lavapit answered from a price table in the step to this state *)
LavapitAnswered ==
    /\ handler.name = "lavapit" /\ ~handler.running
    /\ reply.kind \in {"lavapit", "missing_oil_prices"}

(* C24: on the table get_prices returned, handle_oil and handle_lavapit    *)
(* refuse to compute exactly when calculate_oil_cost('leather') raises,    *)
(* and otherwise their total cost and unit cost of the oil equal the       *)
(* total_cost and unit_price that calculate_oil_cost('leather') returns.   *)
C24_InlineOilCost ==
    /\ OilAnswered =>
          LET computed == calculate_oil_cost(PricesSeen, "leather")
          IN  /\ reply.kind = "missing_prices" <=> computed.type = "Exception"
              /\ reply.kind = "oil" =>
                    /\ DecEq(reply.value[4], computed.total_cost)
                    /\ DecEq(reply.value[5], computed.unit_price)
    /\ LavapitAnswered =>
          LET computed == calculate_oil_cost(PricesSeen, "leather")
          IN  /\ reply.kind = "missing_oil_prices" <=> computed.type = "Exception"
              /\ reply.kind = "lavapit" =>
                    /\ DecEq(reply.value[1], computed.total_cost)
                    /\ DecEq(reply.value[2], computed.unit_price)

(* handle_lavapit computed the oil from wood 2, iron 5 and leather 1:     *)
(* 285 for the 50 oil of three drills                                     *)
C24_Witness ==
    /\ LavapitAnswered
    /\ reply.kind = "lavapit"
    /\ Units(reply.value[1]) = 2850000
    /\ PriceUnits(PricesSeen, s_leather) = 10000

(* ================================================================== *)
(* Properties of the advertisement counter and the user statistics    *)
(* ================================================================== *)

(* C21: per chat, the advertisement is shown on the non-forced calls       *)
(* numbered 10, 20, 30, ... and on no other; a forced call always shows it *)
(* and leaves the chat's counter as it was.                                *)
C21_EveryTenthCall ==
    [][reply'.kind = "advertisement"
       => LET chat_id == reply'.value[1]
              force == reply'.value[2]
              before == IF chat_id \in DOMAIN advertisement_shown
                        THEN advertisement_shown[chat_id] ELSE 0
          IN  IF force
              THEN reply'.ad /\ advertisement_shown' = advertisement_shown
              ELSE /\ advertisement_shown'[chat_id] = before + 1
                   /\ reply'.ad <=> (before + 1) % 10 = 0]_vars

(* C22: a call of update_user_stats on the date of the last call adds the  *)
(* user to daily_users, the first call on a new date leaves the user alone *)
(* in it; daily_users stays within unique_users, which never loses a user. *)
C22_DailyUsers ==
    [][/\ unique_users \subseteq unique_users'
       /\ daily_users' \subseteq unique_users'
       /\ reply'.kind = "user_stats"
            => LET user_id == reply'.value[1]
               IN  /\ daily_users' = IF today = last_reset
                                     THEN daily_users \cup {user_id} ELSE {user_id}
                   /\ unique_users' = unique_users \cup {user_id}
                   /\ last_reset' = today]_vars

(* a second user's first message comes on the day after the first user's *)
C22_Witness ==
    /\ reply.kind = "user_stats"
    /\ today = 1 /\ last_reset = 1
    /\ Cardinality(unique_users) = 2
    /\ daily_users = {reply.value[1]}

====
